---- MODULE Spec2Model ----
(***************************************************************************)
(* Model of guides/keras_cv/random_walks_with_stable_diffusion.py: the     *)
(* four latent walks of the guide (one-shot interpolation, batched         *)
(* interpolation, random walk around a prompt, circular noise walk) and    *)
(* export_as_gif.                                                          *)
(*                                                                         *)
(* Tensors are modelled by one exact rational component <<num, den>>; the  *)
(* external model (encode_text, generate_image) is an opaque deterministic *)
(* collaborator: a frame is identified by the encoding and the diffusion   *)
(* noise it was generated from.  A generate_image call may raise.          *)
(***************************************************************************)
EXTENDS Integers, Sequences, FiniteSets, TLC

\* ---- bounds of the model ------------------------------------------------
MaxSteps == 6
MaxBatch == 3
MaxFrames == 5
MaxCalls == 2

\* values an encode_text result may take (one tensor component)
EncVals == {0, 1}
\* values one draw of tf.random.normal(..., stddev=step_size) may take
Deltas == {-1, 1}
\* distinct images a caller may hand to export_as_gif
FrameIds == {"A", "B", "C"}

seed == 12345

VARIABLES
    pc,                     \* position in the script
    walk,                   \* the section of the guide being executed
    encoding_1, encoding_2, \* lines 80-81
    interpolation_steps,    \* lines 78, 135
    interpolated_encodings, \* line 83
    batch_size,             \* lines 136, 170, 217
    walk_steps,             \* lines 169, 216
    encoding_step,          \* lines 138-139
    step_index,             \* loop variable of lines 142, 176, 223
    images,                 \* the frame list
    noise,                  \* lines 95, 228
    encoding,               \* lines 173, 215: a reference into heap
    heap,                   \* tensor objects of the random walk, by reference
    start,                  \* history: the value encode_text returned at line 173
    deltas,                 \* history: the random draws of line 181, in order
    calls,                  \* history: generate_image calls of the current walk
    files,                  \* the file system: filename -> frames saved
    err,                    \* the exception that ended the script, if any
    exp                     \* history: the last two export_as_gif calls

vars == <<pc, walk, encoding_1, encoding_2, interpolation_steps,
          interpolated_encodings, batch_size, walk_steps, encoding_step,
          step_index, images, noise, encoding, heap, start, deltas, calls,
          files, err, exp>>

\* ---- exact tensor arithmetic ---------------------------------------------
Abs(x) == IF x < 0 THEN -x ELSE x

Min(a, b) == IF a < b THEN a ELSE b

Max(a, b) == IF a > b THEN a ELSE b

RECURSIVE GCD(_, _)
GCD(a, b) == IF b = 0 THEN a ELSE GCD(b, a % b)

\* the rational n/d in lowest terms with a positive denominator
Rat(n, d) ==
    LET g == GCD(Abs(n), Abs(d))
        s == IF d < 0 THEN -1 ELSE 1
    IN  <<(s * n) \div g, (s * d) \div g>>

RInt(n) == <<n, 1>>

RAdd(a, b) == Rat(a[1] * b[2] + b[1] * a[2], a[2] * b[2])

RSub(a, b) == Rat(a[1] * b[2] - b[1] * a[2], a[2] * b[2])

RMul(a, b) == Rat(a[1] * b[1], a[2] * b[2])

RDiv(a, b) == Rat(a[1] * b[2], a[2] * b[1])

\* the fractional part of a non-negative rational: an angle in turns, modulo
\* one turn, which is what cos and sin of the angle depend on
RFrac(a) == Rat(a[1] % a[2], a[2])

\* tf.linspace(start, stop, num): start, num-2 interior points start + k*delta
\* with delta = (stop - start)/(num - 1), then stop itself; num = 1 gives start
linspace(from, to, num) ==
    IF num = 1
    THEN <<from>>
    ELSE LET delta == RDiv(RSub(to, from), RInt(num - 1))
         IN  [k \in 1..num |->
                 IF k = 1 THEN from
                 ELSE IF k = num THEN to
                 ELSE RAdd(from, RMul(delta, RInt(k - 1)))]

\* ---- Python list operations ----------------------------------------------
\* a slice bound as Python clamps it: negative counts from the end
PyBound(i, n) == IF i < 0 THEN Max(n + i, 0) ELSE Min(i, n)

\* s[lo:hi] for a 0-based Python slice of the 1-based sequence s
PySlice(s, lo, hi) ==
    SubSeq(s, PyBound(lo, Len(s)) + 1, PyBound(hi, Len(s)))

\* s[::-1]
Reversed(s) == [k \in 1..Len(s) |-> s[Len(s) + 1 - k]]

\* ---- errors --------------------------------------------------------------
NoError == [kind |-> "none", walk |-> "none", batch |-> 0]

IndexError(w) == [kind |-> "IndexError", walk |-> w, batch |-> 0]

GenerationError(w, b) == [kind |-> "GenerationError", walk |-> w, batch |-> b]

\* mutant: the exception is recorded and the statement is tried again
RetryAfter(e) == pc' = pc /\ err' = e

\* an uncaught exception at module level ends the script at the raising
\* statement: nothing after it runs
Propagate(e) == pc' = "raised" /\ err' = e

\* ---- the external model ---------------------------------------------------
\* element k of a batch argument; a single tensor is broadcast over the batch
Bcast(s, k) == IF Len(s) = 1 THEN s[1] ELSE s[k]

\* model.generate_image(encodings, batch_size=n, diffusion_noise=noise) and
\* Image.fromarray of each result: one frame per batch element, in order
generate_image(encodings, n, diffusion_noise) ==
    [k \in 1..n |-> [enc |-> Bcast(encodings, k),
                     noise |-> Bcast(diffusion_noise, k)]]

\* tf.random.normal(shape, seed=seed), line 95: the tensor the seed determines
NormalNoise(s) == [kind |-> "normal", arg |-> RInt(s)]

\* cos(2*pi*t)*walk_noise_x + sin(2*pi*t)*walk_noise_y for an angle of t turns:
\* determined by t modulo one turn
CircularNoise(t) == [kind |-> "circular", arg |-> RFrac(t)]

\* ---- export_as_gif, lines 112-116 ------------------------------------------
\* mutant: the rubber band is applied to a copy, the caller's list is kept
export_as_gif_on_copy(imgs, rubber_band) ==
    LET extended == IF rubber_band
                    THEN imgs \o Reversed(PySlice(imgs, 2, -1))
                    ELSE imgs
    IN  IF Len(extended) = 0
        THEN [images |-> imgs, raised |-> TRUE, saved |-> <<>>]
        ELSE [images |-> imgs, raised |-> FALSE,
              saved |-> <<extended[1]>> \o PySlice(extended, 1, Len(extended))]

\* mutant: the rubber_band flag is ignored, the list is always extended
export_as_gif_always_banded(imgs, rubber_band) ==
    LET extended == imgs \o Reversed(PySlice(imgs, 2, -1))
    IN  IF Len(extended) = 0
        THEN [images |-> extended, raised |-> TRUE, saved |-> <<>>]
        ELSE [images |-> extended, raised |-> FALSE,
              saved |-> <<extended[1]>> \o PySlice(extended, 1, Len(extended))]

\* mutant: an empty list is saved as an empty animation instead of raising
export_as_gif_saves_empty(imgs, rubber_band) ==
    LET extended == IF rubber_band
                    THEN imgs \o Reversed(PySlice(imgs, 2, -1))
                    ELSE imgs
    IN  [images |-> extended, raised |-> FALSE, saved |-> extended]

\* images += images[2:-1][::-1] extends the caller's list object in place;
\* images[0] raises IndexError on an empty list, before save is reached;
\* images[0].save(..., append_images=images[1:]) writes images[0], images[1:]
export_as_gif(imgs, rubber_band) ==
    LET extended == IF rubber_band
                    THEN imgs \o Reversed(PySlice(imgs, 2, -1))
                    ELSE imgs
    IN  IF Len(extended) = 0
        THEN [images |-> extended, raised |-> TRUE, saved |-> <<>>]
        ELSE [images |-> extended, raised |-> FALSE,
              saved |-> <<extended[1]>> \o PySlice(extended, 1, Len(extended))]

\* the file system after filename is written with frames
Save(fs, filename, frames) ==
    [f \in DOMAIN fs \cup {filename} |-> IF f = filename THEN frames ELSE fs[f]]

NoFiles == [f \in {} |-> <<>>]

\* history of the export_as_gif calls made on the current list object
NoExports ==
    [ncalls |-> 0, arg |-> <<>>, rb |-> FALSE, written |-> <<>>,
     raised |-> FALSE, prev_arg |-> <<>>, prev_rb |-> FALSE,
     prev_written |-> <<>>]

ExpAfter(e, arg, rb, r) ==
    [ncalls |-> e.ncalls + 1, arg |-> arg, rb |-> rb, written |-> r.saved,
     raised |-> r.raised, prev_arg |-> e.arg, prev_rb |-> e.rb,
     prev_written |-> e.written]

\* the gif each walk of the guide is exported to (lines 118, 155, 191, 236)
WalkFile(w) ==
    CASE w = "interp5" -> "doggo-and-fruit-5.gif"
      [] w = "interp160" -> "doggo-and-fruit-160.gif"
      [] w = "random" -> "ducky.gif"
      [] w = "circular" -> "cows.gif"
      [] OTHER -> "out.gif"

\* ---- the random walk's accumulator, lines 179-182 -------------------------
\* mutant: += updates the tensor object in place, as it would a numpy array
iadd_in_place(h, ref, d) ==
    [heap |-> [h EXCEPT ![ref] = RAdd(@, d)], ref |-> ref]

\* encoding += random_deltas on a tf.Tensor, which is immutable: a new tensor
\* holds the sum and the name is rebound to it
iadd(h, ref, d) ==
    [heap |-> Append(h, RAdd(h[ref], d)), ref |-> Len(h) + 1]

\* the inner loop of lines 178-182 from its iteration k on, then tf.stack:
\* refs are the references appended to batch_encodings so far
RECURSIVE BatchLoop(_, _, _, _, _)
BatchLoop(h, ref, ds, k, refs) ==
    IF k > Len(ds)
    THEN [heap |-> h, encoding |-> ref,
          batch_encodings |-> [j \in 1..Len(refs) |-> h[refs[j]]]]
    ELSE LET r == iadd(h, ref, RInt(ds[k]))
         IN  BatchLoop(r.heap, r.ref, ds, k + 1, Append(refs, ref))

\* ---- the script ----------------------------------------------------------
Init ==
    /\ pc = "encode"
    /\ walk = "interp5"
    /\ encoding_1 = RInt(0)
    /\ encoding_2 = RInt(0)
    /\ interpolation_steps = 1
    /\ interpolated_encodings = <<>>
    /\ batch_size = 1
    /\ walk_steps = 1
    /\ encoding_step = RInt(0)
    /\ step_index = 0
    /\ images = <<>>
    /\ noise = <<>>
    /\ encoding = 1
    /\ heap = <<RInt(0)>>
    /\ start = RInt(0)
    /\ deltas = <<>>
    /\ calls = <<>>
    /\ files = NoFiles
    /\ err = NoError
    /\ exp = NoExports

\* a generate_image call as the history records it
Call(encodings, diffusion_noise, b, ok) ==
    [encodings |-> encodings, noise |-> diffusion_noise, batch |-> b, ok |-> ok]

\* lines 76-83: the prompts are encoded and interpolated in one tf.linspace
EncodePrompts ==
    /\ pc = "encode"
    /\ \E a \in EncVals, b \in EncVals, n \in 1..MaxSteps :
          /\ encoding_1' = RInt(a)
          /\ encoding_2' = RInt(b)
          /\ interpolation_steps' = n
          /\ interpolated_encodings' = linspace(RInt(a), RInt(b), n)
    /\ pc' = "noise"
    /\ UNCHANGED <<walk, batch_size, walk_steps, encoding_step, step_index,
                   images, noise, encoding, heap, start, deltas, calls,
                   files, err, exp>>

\* lines 94-95
DrawNoise ==
    /\ pc = "noise"
    /\ noise' = <<NormalNoise(seed)>>
    /\ pc' = "generate5"
    /\ UNCHANGED <<walk, encoding_1, encoding_2, interpolation_steps,
                   interpolated_encodings, batch_size, walk_steps,
                   encoding_step, step_index, images, encoding, heap, start,
                   deltas, calls, files, err, exp>>

\* lines 97-101: all interpolated encodings in one batch
Generate5 ==
    /\ pc = "generate5"
    /\ \E ok \in BOOLEAN :
          /\ calls' = Append(calls, Call(interpolated_encodings, noise, 0, ok))
          /\ IF ok
             THEN /\ images' = generate_image(interpolated_encodings,
                                              interpolation_steps, noise)
                  /\ pc' = "export5"
                  /\ err' = err
             ELSE /\ images' = images
                  /\ Propagate(GenerationError(walk, 0))
    /\ UNCHANGED <<walk, encoding_1, encoding_2, interpolation_steps,
                   interpolated_encodings, batch_size, walk_steps,
                   encoding_step, step_index, noise, encoding, heap, start,
                   deltas, files, exp>>

\* line 118: the list comprehension builds a new list, which export_as_gif
\* extends; the script's images is not that list
Export5 ==
    /\ pc = "export5"
    /\ LET r == export_as_gif(images, TRUE)
       IN  /\ exp' = ExpAfter(NoExports, images, TRUE, r)
           /\ IF r.raised
              THEN /\ Propagate(IndexError(walk))
                   /\ files' = files
              ELSE /\ files' = Save(files, WalkFile(walk), r.saved)
                   /\ pc' = "setup160"
                   /\ err' = err
    /\ UNCHANGED <<walk, encoding_1, encoding_2, interpolation_steps,
                   interpolated_encodings, batch_size, walk_steps,
                   encoding_step, step_index, images, noise, encoding, heap,
                   start, deltas, calls>>

\* lines 135-141.  The guide writes the same literals, 160 and 16, for the
\* three batched walks: they are the inputs n and b here, read again at
\* lines 169-170 and 216-217.
Setup160 ==
    /\ pc = "setup160"
    /\ \E n \in 1..MaxSteps, b \in 1..MaxBatch :
          /\ interpolation_steps' = n
          /\ batch_size' = b
          /\ encoding_step' = RDiv(RSub(encoding_2, encoding_1), RInt(n))
          /\ pc' = IF n \div b > 0 THEN "loop160" ELSE "export160"
    /\ walk' = "interp160"
    /\ images' = <<>>
    /\ step_index' = 0
    /\ calls' = <<>>
    /\ exp' = NoExports
    /\ UNCHANGED <<encoding_1, encoding_2, interpolated_encodings, walk_steps,
                   noise, encoding, heap, start, deltas, files, err>>

\* lines 142-153: one iteration of the batched interpolation loop
Loop160 ==
    /\ pc = "loop160"
    /\ step_index < interpolation_steps \div batch_size
    /\ LET step_offsets == linspace(RInt(batch_size * step_index),
                                    RInt(batch_size * (step_index + 1) - 1),
                                    batch_size)
           encodings == [k \in 1..batch_size |->
                            RAdd(encoding_1,
                                 RMul(step_offsets[k], encoding_step))]
       IN  \E ok \in BOOLEAN :
              /\ calls' = Append(calls, Call(encodings, noise, step_index, ok))
              /\ IF ok
                 THEN /\ images' = images \o
                            generate_image(encodings, batch_size, noise)
                      /\ step_index' = step_index + 1
                      /\ pc' = IF step_index + 1 <
                                    interpolation_steps \div batch_size
                               THEN "loop160" ELSE "export160"
                      /\ err' = err
                 ELSE /\ images' = images
                      /\ step_index' = step_index
                      /\ Propagate(GenerationError(walk, step_index))
    /\ UNCHANGED <<walk, encoding_1, encoding_2, interpolation_steps,
                   interpolated_encodings, batch_size, walk_steps,
                   encoding_step, noise, encoding, heap, start, deltas,
                   files, exp>>

\* lines 155, 191, 236: export_as_gif on the script's own list
Export(at, rubber_band, next) ==
    /\ pc = at
    /\ LET r == export_as_gif(images, rubber_band)
       IN  /\ images' = r.images
           /\ exp' = ExpAfter(exp, images, rubber_band, r)
           /\ IF r.raised
              THEN /\ Propagate(IndexError(walk))
                   /\ files' = files
              ELSE /\ files' = Save(files, WalkFile(walk), r.saved)
                   /\ pc' = next
                   /\ err' = err
    /\ UNCHANGED <<walk, encoding_1, encoding_2, interpolation_steps,
                   interpolated_encodings, batch_size, walk_steps,
                   encoding_step, step_index, noise, encoding, heap, start,
                   deltas, calls>>

\* line 155
Export160 == Export("export160", TRUE, "setupRandom")

\* lines 169-175
SetupRandom ==
    /\ pc = "setupRandom"
    /\ walk_steps' = interpolation_steps
    /\ batch_size' = batch_size
    /\ \E e \in EncVals :
          /\ heap' = <<RInt(e)>>
          /\ start' = RInt(e)
    /\ encoding' = 1
    /\ deltas' = <<>>
    /\ walk' = "random"
    /\ images' = <<>>
    /\ step_index' = 0
    /\ calls' = <<>>
    /\ exp' = NoExports
    /\ pc' = IF interpolation_steps \div batch_size > 0
             THEN "loopRandom" ELSE "exportRandom"
    /\ UNCHANGED <<encoding_1, encoding_2, interpolation_steps,
                   interpolated_encodings, encoding_step, noise, files, err>>

\* lines 176-189 but for the diffusion noise: one iteration of the outer
\* loop, the inner loop over the batch included
RandomBatch ==
    /\ pc = "loopRandom"
    /\ step_index < walk_steps \div batch_size
    /\ \E ds \in [1..batch_size -> Deltas], ok \in BOOLEAN :
          LET r == BatchLoop(heap, encoding, ds, 1, <<>>)
          IN  /\ heap' = r.heap
              /\ encoding' = r.encoding
              /\ deltas' = deltas \o ds
              /\ calls' = Append(calls,
                     Call(r.batch_encodings, noise, step_index, ok))
              /\ IF ok
                 THEN /\ images' = images \o
                            generate_image(r.batch_encodings, batch_size, noise)
                      /\ step_index' = step_index + 1
                      /\ pc' = IF step_index + 1 < walk_steps \div batch_size
                               THEN "loopRandom" ELSE "exportRandom"
                      /\ err' = err
                 ELSE /\ images' = images
                      /\ step_index' = step_index
                      /\ Propagate(GenerationError(walk, step_index))
    /\ UNCHANGED <<walk, encoding_1, encoding_2, interpolation_steps,
                   interpolated_encodings, batch_size, walk_steps,
                   encoding_step, start, files, exp>>

\* mutant: the diffusion noise is drawn again for every batch
LoopRandom_redraws_noise ==
    /\ RandomBatch
    /\ noise' = <<NormalNoise(seed + step_index + 1)>>

\* lines 176-189: the loop body never assigns noise
LoopRandom ==
    /\ RandomBatch
    /\ noise' = noise

\* line 191
ExportRandom == Export("exportRandom", TRUE, "setupCircular")

\* lines 214-222; walk_noise_x and walk_noise_y are the two fixed tensors
\* CircularNoise combines
SetupCircular ==
    /\ pc = "setupCircular"
    /\ walk_steps' = walk_steps
    /\ batch_size' = batch_size
    /\ \E e \in EncVals : heap' = <<RInt(e)>>
    /\ encoding' = 1
    /\ walk' = "circular"
    /\ images' = <<>>
    /\ step_index' = 0
    /\ calls' = <<>>
    /\ exp' = NoExports
    /\ pc' = IF walk_steps \div batch_size > 0
             THEN "loopCircular" ELSE "exportCircular"
    /\ UNCHANGED <<encoding_1, encoding_2, interpolation_steps,
                   interpolated_encodings, encoding_step, noise, start,
                   deltas, files, err>>

\* lines 223-234: one iteration of the circular noise loop; line 228 rebinds
\* the script's noise
LoopCircular ==
    /\ pc = "loopCircular"
    /\ step_index < walk_steps \div batch_size
    /\ LET indices == linspace(RInt(batch_size * step_index),
                               RInt(batch_size * (step_index + 1) - 1),
                               batch_size)
           batch_noise == [k \in 1..batch_size |->
                              CircularNoise(RDiv(indices[k], RInt(walk_steps)))]
       IN  /\ noise' = batch_noise
           /\ \E ok \in BOOLEAN :
                 /\ calls' = Append(calls,
                        Call(<<heap[encoding]>>, batch_noise, step_index, ok))
                 /\ IF ok
                    THEN /\ images' = images \o
                               generate_image(<<heap[encoding]>>, batch_size,
                                              batch_noise)
                         /\ step_index' = step_index + 1
                         /\ pc' = IF step_index + 1 < walk_steps \div batch_size
                                  THEN "loopCircular" ELSE "exportCircular"
                         /\ err' = err
                    ELSE /\ images' = images
                         /\ step_index' = step_index
                         /\ Propagate(GenerationError(walk, step_index))
    /\ UNCHANGED <<walk, encoding_1, encoding_2, interpolation_steps,
                   interpolated_encodings, batch_size, walk_steps,
                   encoding_step, encoding, heap, start, deltas, files, exp>>

\* line 236
ExportCircular == Export("exportCircular", FALSE, "done")

Next ==
    \/ EncodePrompts
    \/ DrawNoise
    \/ Generate5
    \/ Export5
    \/ Setup160
    \/ Loop160
    \/ Export160
    \/ SetupRandom
    \/ LoopRandom
    \/ ExportRandom
    \/ SetupCircular
    \/ LoopCircular
    \/ ExportCircular

Spec == Init /\ [][Next]_vars

\* ---- export_as_gif on its own ---------------------------------------------
\* a caller holding any list of at most MaxFrames frames
InitExport ==
    /\ pc = "caller"
    /\ walk = "caller"
    /\ images \in UNION {[1..n -> FrameIds] : n \in 0..MaxFrames}
    /\ encoding_1 = RInt(0)
    /\ encoding_2 = RInt(0)
    /\ interpolation_steps = 1
    /\ interpolated_encodings = <<>>
    /\ batch_size = 1
    /\ walk_steps = 1
    /\ encoding_step = RInt(0)
    /\ step_index = 0
    /\ noise = <<>>
    /\ encoding = 1
    /\ heap = <<RInt(0)>>
    /\ start = RInt(0)
    /\ deltas = <<>>
    /\ calls = <<>>
    /\ files = NoFiles
    /\ err = NoError
    /\ exp = NoExports

\* the caller exports its list, with or without the rubber band, and may do
\* so again on the same list
CallExport ==
    /\ exp.ncalls < MaxCalls
    /\ \E rubber_band \in BOOLEAN : Export("caller", rubber_band, "caller")

NextExport == CallExport

SpecExport == InitExport /\ [][NextExport]_vars

\* ---- what the claims speak of ----------------------------------------------
\* the encodings handed to generate_image over the calls cs, in order
RECURSIVE FedEncodings(_)
FedEncodings(cs) ==
    IF Len(cs) = 0 THEN <<>> ELSE cs[1].encodings \o FedEncodings(Tail(cs))

\* the diffusion noise tensors handed to generate_image over the calls cs
RECURSIVE FedNoise(_)
FedNoise(cs) ==
    IF Len(cs) = 0 THEN <<>> ELSE cs[1].noise \o FedNoise(Tail(cs))

Ceil(a, b) == (a + b - 1) \div b

\* w starts at a, ends at b and has a constant difference between neighbours
IsLinearWalk(w, a, b) ==
    /\ Len(w) >= 1
    /\ w[1] = a
    /\ w[Len(w)] = b
    /\ \A i \in 1..(Len(w) - 1) : RSub(w[i + 1], w[i]) = RSub(w[2], w[1])

\* C1: export_as_gif with rubber_band=True on N >= 3 frames writes N + (N-2)
\* frames: the N frames in order, then the interior frames N-2 down to 1 in
\* reverse ([A,B,C,D] is written as [A,B,C,D,C,B]).
C1_RubberBandAppendsInterior ==
    (exp.ncalls >= 1 /\ exp.rb /\ Len(exp.arg) >= 3) =>
        /\ Len(exp.written) = Len(exp.arg) + (Len(exp.arg) - 2)
        /\ exp.written =
              exp.arg \o Reversed(SubSeq(exp.arg, 2, Len(exp.arg) - 1))

\* C2: when a batching loop has finished, generate_image was called on
\* ceil(steps / batch_size) contiguous chunks and the frame list holds exactly
\* `steps` frames, frame i made from walk vector i.
C2_BatchingCoversWalk ==
    /\ pc = "export160" =>
          /\ Len(calls) = Ceil(interpolation_steps, batch_size)
          /\ \A j \in 1..Len(calls) : calls[j].batch = j - 1
          /\ Len(images) = interpolation_steps
          /\ \A i \in 1..Len(images) :
                images[i].enc = RAdd(encoding_1,
                                     RMul(RInt(i - 1), encoding_step))
    /\ pc = "exportRandom" =>
          /\ Len(calls) = Ceil(walk_steps, batch_size)
          /\ \A j \in 1..Len(calls) : calls[j].batch = j - 1
          /\ Len(images) = walk_steps
          /\ \A i \in 1..Len(images) :
                images[i].enc = FedEncodings(calls)[i]

\* C3: for steps >= 2 the encodings fed to the model by a linear interpolation
\* walk, one-shot or batched, start at encoding_1, end at encoding_2 and are
\* evenly spaced.  The batched walk is taken where batch_size divides steps,
\* so that the loop feeds every one of its steps vectors.
C3_InterpolationReachesBothEnds ==
    /\ (pc = "generate5" /\ interpolation_steps >= 2) =>
          IsLinearWalk(interpolated_encodings, encoding_1, encoding_2)
    /\ (pc = "export160" /\ interpolation_steps >= 2
                          /\ interpolation_steps % batch_size = 0) =>
          IsLinearWalk(FedEncodings(calls), encoding_1, encoding_2)

\* C4: when generate_image fails on a batch the script ends there: the failed
\* batch is the last call made (no retry, no later batch), the batches before
\* it all succeeded in order, and export_as_gif was not called for the walk,
\* whose gif does not exist.
C4_FailureEndsWalk ==
    err.kind = "GenerationError" =>
        /\ pc = "raised"
        /\ Len(calls) = err.batch + 1
        /\ ~calls[Len(calls)].ok
        /\ \A j \in 1..(Len(calls) - 1) : calls[j].ok /\ calls[j].batch = j - 1
        /\ exp.ncalls = 0
        /\ WalkFile(err.walk) \notin DOMAIN files

C4_Witness ==
    /\ err.kind = "GenerationError"
    /\ err.walk = "random"
    /\ err.batch >= 1
    /\ "doggo-and-fruit-160.gif" \in DOMAIN files

C6_RandomWalkAccumulates ==
    walk = "random" =>
        LET fed == FedEncodings(calls)
        IN  /\ Len(fed) = Len(deltas)
            /\ Len(fed) >= 1 => fed[1] = start
            /\ \A k \in 2..Len(fed) :
                  fed[k] = RAdd(fed[k - 1], RInt(deltas[k - 1]))

C6_Witness ==
    /\ walk = "random"
    /\ batch_size = 2
    /\ Len(calls) = 2
    /\ calls[2].ok
    /\ \E k \in 1..Len(deltas) : deltas[k] = 1

\* C7: when the circular loop has finished, the noise tensors fed to the
\* model are those of indices 0 .. steps-1, each once and in order, the first
\* being walk_noise_x itself.
C7_CircularWalkCoversPeriod ==
    pc = "exportCircular" =>
        LET fed == FedNoise(calls)
        IN  /\ Len(fed) = walk_steps
            /\ fed[1] = CircularNoise(RInt(0))
            /\ \A i \in 1..Len(fed) :
                  fed[i] = CircularNoise(Rat(i - 1, walk_steps))

\* C8: in the interpolation walks and the random walk every generate_image
\* call gets the noise drawn from the seed at line 95, and the script's noise
\* stays that tensor.
C8_NoiseFixedInTextWalks ==
    walk \in {"interp5", "interp160", "random"} =>
        /\ \A j \in 1..Len(calls) : calls[j].noise = <<NormalNoise(seed)>>
        /\ pc \notin {"encode", "noise"} => noise = <<NormalNoise(seed)>>

C8_Witness ==
    /\ walk = "random"
    /\ Len(calls) >= 2
    /\ pc = "exportRandom"

\* C9: export_as_gif with rubber_band=False on a non-empty list writes exactly
\* the list, in order, and leaves the caller's list as it was.
C9_PlainExportWritesInput ==
    (exp.ncalls >= 1 /\ ~exp.rb /\ exp.arg # <<>>) =>
        /\ ~exp.raised
        /\ exp.written = exp.arg
        /\ images = exp.arg
        /\ WalkFile(walk) \in DOMAIN files
        /\ files[WalkFile(walk)] = exp.arg

C9_Witness ==
    /\ exp.ncalls >= 1
    /\ ~exp.rb
    /\ Len(exp.arg) >= 4
    /\ \E i \in 1..Len(exp.arg) : exp.arg[i] # exp.arg[1]

\* C10 as stated: after a rubber-band export the caller's list is the
\* sequence written, and a second rubber-band export of the same list writes
\* a longer sequence than the first.
C10_SecondExportLonger ==
    (exp.ncalls >= 2 /\ exp.rb /\ exp.prev_rb) =>
        /\ images = exp.written
        /\ exp.arg = exp.prev_written
        /\ Len(exp.written) > Len(exp.prev_written)

\* C10 as amended: after a rubber-band export the caller's list is the
\* sequence written; a second rubber-band export of the same list starts
\* from that extended list, and writes a longer sequence when the list had at
\* least 4 frames at the first call, the same sequence when it had 1 to 3.
C10_ExportExtendsInPlace ==
    /\ (exp.ncalls >= 1 /\ exp.rb /\ ~exp.raised) => images = exp.written
    /\ (exp.ncalls >= 2 /\ exp.rb /\ exp.prev_rb) =>
          /\ exp.arg = exp.prev_written
          /\ exp.written =
                exp.arg \o Reversed(SubSeq(exp.arg, 3, Len(exp.arg) - 1))
          /\ Len(exp.prev_arg) >= 4 =>
                Len(exp.written) > Len(exp.prev_written)
          /\ Len(exp.prev_arg) <= 3 => exp.written = exp.prev_written

C10_Witness ==
    /\ exp.ncalls = 2
    /\ exp.rb
    /\ exp.prev_rb
    /\ Len(exp.prev_arg) = 4
    /\ Len(exp.written) = 7

====
